---------------------------- MODULE Spec2Model ----------------------------
(***************************************************************************)
(* AppTrust PROD rollback utility (scripts/apptrust_rollback.py).          *)
(*                                                                         *)
(* Version strings are sequences of one-character strings, so that the     *)
(* SemVer pattern, the prerelease tokens and their comparison are computed *)
(* character by character, as the code does.  A registry is the sequence   *)
(* of records that list_application_versions returns; the rollback flow is *)
(* a process whose steps are split at its calls to the client.             *)
(***************************************************************************)
EXTENDS Integers, Sequences, FiniteSets, TLC

(* ------------------------- characters and strings --------------------- *)

DigitChars == <<"0", "1", "2", "3", "4", "5", "6", "7", "8", "9">>

UpperChars == <<"A", "B", "C", "D", "E", "F", "G", "H", "I", "J", "K", "L", "M",
                "N", "O", "P", "Q", "R", "S", "T", "U", "V", "W", "X", "Y", "Z">>

LowerChars == <<"a", "b", "c", "d", "e", "f", "g", "h", "i", "j", "k", "l", "m",
                "n", "o", "p", "q", "r", "s", "t", "u", "v", "w", "x", "y", "z">>

Range(s) == {s[i] : i \in DOMAIN s}

IsDigitChar(c) == c \in Range(DigitChars)

IsAlphaChar(c) == c \in Range(UpperChars) \cup Range(LowerChars)

IsSpaceChar(c) == c \in {" ", "\t", "\n", "\r"}

IndexIn(c, s) == CHOOSE i \in DOMAIN s : s[i] = c

(* Code point of a character: the order Python compares strings by. *)
Ord(c) ==
    IF IsDigitChar(c) THEN 47 + IndexIn(c, DigitChars)
    ELSE IF c \in Range(UpperChars) THEN 64 + IndexIn(c, UpperChars)
    ELSE IF c \in Range(LowerChars) THEN 96 + IndexIn(c, LowerChars)
    ELSE IF c = "-" THEN 45
    ELSE IF c = "." THEN 46
    ELSE IF c = "+" THEN 43
    ELSE IF c = " " THEN 32
    ELSE IF c = "\r" THEN 13
    ELSE IF c = "\n" THEN 10
    ELSE 9

(* str.__lt__: lexicographic on code points, a proper prefix is smaller. *)
RECURSIVE StrLess(_, _)
StrLess(a, b) ==
    IF b = <<>> THEN FALSE
    ELSE IF a = <<>> THEN TRUE
    ELSE IF Head(a) # Head(b) THEN Ord(Head(a)) < Ord(Head(b))
    ELSE StrLess(Tail(a), Tail(b))

(* str.isdigit(): non-empty and every character a digit. *)
IsDigitStr(s) == s # <<>> /\ \A i \in DOMAIN s : IsDigitChar(s[i])

(* int(s) of a decimal digit string. *)
RECURSIVE IntOf(_)
IntOf(s) ==
    IF s = <<>> THEN 0
    ELSE 10 * IntOf(SubSeq(s, 1, Len(s) - 1)) + (Ord(s[Len(s)]) - 48)

(* str.split(sep) on one separator character. *)
RECURSIVE Split(_, _)
Split(s, sep) ==
    IF \A i \in DOMAIN s : s[i] # sep THEN <<s>>
    ELSE LET k == CHOOSE i \in DOMAIN s :
                      s[i] = sep /\ \A j \in 1..(i - 1) : s[j] # sep
         IN  <<SubSeq(s, 1, k - 1)>> \o Split(SubSeq(s, k + 1, Len(s)), sep)

RECURSIVE LStrip(_)
LStrip(s) == IF s # <<>> /\ IsSpaceChar(Head(s)) THEN LStrip(Tail(s)) ELSE s

RECURSIVE RStrip(_)
RStrip(s) ==
    IF s # <<>> /\ IsSpaceChar(s[Len(s)]) THEN RStrip(SubSeq(s, 1, Len(s) - 1)) ELSE s

(* ------------------------- SemVer helpers ----------------------------- *)

(* Mutant: a numeric identifier may begin with 0. *)
IsNumericId_leading_zero(s) == IsDigitStr(s)

(* 0|[1-9]\d*  *)
IsNumericId(s) == IsDigitStr(s) /\ (Len(s) = 1 \/ s[1] # "0")

(* [0-9a-zA-Z-]+ *)
IsIdChars(s) ==
    s # <<>> /\ \A i \in DOMAIN s : IsDigitChar(s[i]) \/ IsAlphaChar(s[i]) \/ s[i] = "-"

(* 0|[1-9]\d*|[a-zA-Z-][0-9a-zA-Z-]*  *)
IsPrereleaseId(s) ==
    \/ IsNumericId(s)
    \/ IsIdChars(s) /\ (IsAlphaChar(s[1]) \/ s[1] = "-")

(* The first position of character c in s, 0 when s has none. *)
FirstIndex(s, c) ==
    IF \A i \in DOMAIN s : s[i] # c THEN 0
    ELSE CHOOSE i \in DOMAIN s : s[i] = c /\ \A j \in 1..(i - 1) : s[j] # c

(* s up to its first c (all of s when it has none), and what follows it. *)
Before(s, c) == IF FirstIndex(s, c) = 0 THEN s ELSE SubSeq(s, 1, FirstIndex(s, c) - 1)

After(s, c) == IF FirstIndex(s, c) = 0 THEN <<>> ELSE SubSeq(s, FirstIndex(s, c) + 1, Len(s))

(* The groups of a match, from the parts of the string: the three numbers
   of the core, the prerelease (present when a "-" introduced it) and the
   build metadata (present when a "+" introduced it). *)
MatchGroups(nums, hasDash, pre, hasPlus, build) ==
    IF /\ Len(nums) = 3
       /\ \A i \in 1..3 : IsNumericId(nums[i])
       /\ hasDash => \A i \in DOMAIN Split(pre, ".") : IsPrereleaseId(Split(pre, ".")[i])
       /\ hasPlus => \A i \in DOMAIN Split(build, ".") : IsIdChars(Split(build, ".")[i])
    THEN [matched |-> TRUE, major |-> nums[1], minor |-> nums[2],
          patch |-> nums[3], prerelease |-> pre]
    ELSE [matched |-> FALSE]

(* The pattern after its leading \s*v? and before its trailing \s*$.  It is
   anchored at both ends, so the string decomposes uniquely: the core up to
   the first "-" or "+", the prerelease up to the first "+", the build
   metadata after it. *)
MatchBody(s) ==
    MatchGroups(Split(Before(Before(s, "+"), "-"), "."),
                FirstIndex(Before(s, "+"), "-") # 0,
                After(Before(s, "+"), "-"),
                FirstIndex(s, "+") # 0,
                After(s, "+"))

StripV(s) == IF s # <<>> /\ Head(s) = "v" THEN Tail(s) ELSE s

(* SEMVER_RE.match(version).groupdict(), or matched = FALSE. *)
SEMVER_RE(version) == MatchBody(StripV(RStrip(LStrip(version))))

(* The value SemVer.parse returns for a string the pattern rejects. *)
None == [none |-> TRUE]

(* The SemVer built from the groups of a match. *)
SemVerOf(groups, version) ==
    IF ~groups.matched THEN None
    ELSE [major      |-> IntOf(groups.major),
          minor      |-> IntOf(groups.minor),
          patch      |-> IntOf(groups.patch),
          prerelease |-> IF groups.prerelease # <<>>
                         THEN Split(groups.prerelease, ".") ELSE <<>>,
          original   |-> version]

(* SemVer.parse *)
SemVer_parse(version) == SemVerOf(SEMVER_RE(version), version)

Min(a, b) == IF a < b THEN a ELSE b

(* Mutant: two numeric tokens are compared as strings. *)
RECURSIVE compare_prerelease_as_strings(_, _, _)
compare_prerelease_as_strings(ap, bp, i) ==
    IF i > Min(Len(ap), Len(bp)) THEN 0
    ELSE IF ap[i] = bp[i] THEN compare_prerelease_as_strings(ap, bp, i + 1)
    ELSE IF IsDigitStr(ap[i]) /\ ~IsDigitStr(bp[i]) THEN -1
    ELSE IF ~IsDigitStr(ap[i]) /\ IsDigitStr(bp[i]) THEN 1
    ELSE IF StrLess(ap[i], bp[i]) THEN -1 ELSE 1

(* The loop of compare_semver over zip(a.prerelease, b.prerelease), from
   position i: the result the loop returns, or 0 when it runs to its end. *)
RECURSIVE compare_prerelease(_, _, _)
compare_prerelease(ap, bp, i) ==
    IF i > Min(Len(ap), Len(bp)) THEN 0
    ELSE LET at == ap[i]
             bt == bp[i]
             a_is_num == IsDigitStr(at)
             b_is_num == IsDigitStr(bt)
         IN  IF at = bt THEN compare_prerelease(ap, bp, i + 1)
             ELSE IF a_is_num /\ b_is_num
                  THEN IF IntOf(at) # IntOf(bt)
                       THEN (IF IntOf(at) < IntOf(bt) THEN -1 ELSE 1)
                       ELSE compare_prerelease(ap, bp, i + 1)
             ELSE IF a_is_num /\ ~b_is_num THEN -1
             ELSE IF ~a_is_num /\ b_is_num THEN 1
             ELSE IF StrLess(at, bt) THEN -1 ELSE 1

(* Mutant: the branch "a.prerelease and not b.prerelease" is missing. *)
compare_semver_one_sided(a, b) ==
    IF a.major # b.major THEN (IF a.major < b.major THEN -1 ELSE 1)
    ELSE IF a.minor # b.minor THEN (IF a.minor < b.minor THEN -1 ELSE 1)
    ELSE IF a.patch # b.patch THEN (IF a.patch < b.patch THEN -1 ELSE 1)
    ELSE IF a.prerelease = <<>> /\ b.prerelease # <<>> THEN 1
    ELSE LET r == compare_prerelease(a.prerelease, b.prerelease, 1)
         IN  IF r # 0 THEN r
             ELSE IF Len(a.prerelease) # Len(b.prerelease)
                  THEN (IF Len(a.prerelease) < Len(b.prerelease) THEN -1 ELSE 1)
                  ELSE 0

(* Mutant: release against prerelease is decided before the patch number. *)
compare_semver_release_before_patch(a, b) ==
    IF a.major # b.major THEN (IF a.major < b.major THEN -1 ELSE 1)
    ELSE IF a.minor # b.minor THEN (IF a.minor < b.minor THEN -1 ELSE 1)
    ELSE IF a.prerelease = <<>> /\ b.prerelease # <<>> THEN 1
    ELSE IF a.prerelease # <<>> /\ b.prerelease = <<>> THEN -1
    ELSE IF a.patch # b.patch THEN (IF a.patch < b.patch THEN -1 ELSE 1)
    ELSE LET r == compare_prerelease(a.prerelease, b.prerelease, 1)
         IN  IF r # 0 THEN r
             ELSE IF Len(a.prerelease) # Len(b.prerelease)
                  THEN (IF Len(a.prerelease) < Len(b.prerelease) THEN -1 ELSE 1)
                  ELSE 0

(* Mutant: versions that compare equal are told apart by their original
   strings. *)
compare_semver_tie_on_original(a, b) ==
    IF a.major # b.major THEN (IF a.major < b.major THEN -1 ELSE 1)
    ELSE IF a.minor # b.minor THEN (IF a.minor < b.minor THEN -1 ELSE 1)
    ELSE IF a.patch # b.patch THEN (IF a.patch < b.patch THEN -1 ELSE 1)
    ELSE IF a.prerelease = <<>> /\ b.prerelease # <<>> THEN 1
    ELSE IF a.prerelease # <<>> /\ b.prerelease = <<>> THEN -1
    ELSE LET r == compare_prerelease(a.prerelease, b.prerelease, 1)
         IN  IF r # 0 THEN r
             ELSE IF Len(a.prerelease) # Len(b.prerelease)
                  THEN (IF Len(a.prerelease) < Len(b.prerelease) THEN -1 ELSE 1)
                  ELSE IF a.original = b.original THEN 0
                  ELSE IF StrLess(a.original, b.original) THEN -1 ELSE 1

(* compare_semver *)
compare_semver(a, b) ==
    IF a.major # b.major THEN (IF a.major < b.major THEN -1 ELSE 1)
    ELSE IF a.minor # b.minor THEN (IF a.minor < b.minor THEN -1 ELSE 1)
    ELSE IF a.patch # b.patch THEN (IF a.patch < b.patch THEN -1 ELSE 1)
    ELSE IF a.prerelease = <<>> /\ b.prerelease # <<>> THEN 1
    ELSE IF a.prerelease # <<>> /\ b.prerelease = <<>> THEN -1
    ELSE LET r == compare_prerelease(a.prerelease, b.prerelease, 1)
         IN  IF r # 0 THEN r
             ELSE IF Len(a.prerelease) # Len(b.prerelease)
                  THEN (IF Len(a.prerelease) < Len(b.prerelease) THEN -1 ELSE 1)
                  ELSE 0

(* SemVer.__lt__ *)
SemVer_lt(a, b) == compare_semver(a, b) < 0


(* Where x goes in a list L kept in descending order, given the positions
   `lower` of the elements of L that are less than x: before the first of
   them, so that equal elements keep the order in which they were inserted
   (list.sort(key=..., reverse=True) is stable). *)
InsertBefore(L, x, lower) ==
    LET p == IF lower = {} THEN Len(L) + 1
             ELSE CHOOSE i \in lower : \A j \in lower : i <= j
    IN  SubSeq(L, 1, p - 1) \o <<x>> \o SubSeq(L, p, Len(L))

(* Tuple comparison of the first sort key:
   (major, minor, patch, 0 if GA else -1). *)
SortKey(t) ==
    <<t[1].major, t[1].minor, t[1].patch, IF t[1].prerelease = <<>> THEN 0 ELSE -1>>

RECURSIVE TupleLess(_, _)
TupleLess(a, b) ==
    IF b = <<>> THEN FALSE
    ELSE IF a = <<>> THEN TRUE
    ELSE IF Head(a) # Head(b) THEN Head(a) < Head(b)
    ELSE TupleLess(Tail(a), Tail(b))

SortKeyLess(t, u) == TupleLess(SortKey(t), SortKey(u))

(* parsed.sort(key=(major, minor, patch, GA flag), reverse=True) *)
SortDescByKey(seq) ==
    LET ins[i \in 0..Len(seq)] ==
            IF i = 0 THEN <<>>
            ELSE InsertBefore(ins[i - 1], seq[i],
                     {k \in DOMAIN ins[i - 1] : SortKeyLess(ins[i - 1][k], seq[i])})
    IN  ins[Len(seq)]

(* Mutant: the second sort without reverse=True. *)
SortAscBySemVer(seq) ==
    LET ins[i \in 0..Len(seq)] ==
            IF i = 0 THEN <<>>
            ELSE InsertBefore(ins[i - 1], seq[i],
                     {k \in DOMAIN ins[i - 1] : SemVer_lt(seq[i][1], ins[i - 1][k][1])})
    IN  ins[Len(seq)]

(* parsed.sort(key=lambda t: t[0], reverse=True): the keys are SemVer
   objects, compared by SemVer.__lt__. *)
SortDescBySemVer(seq) ==
    LET ins[i \in 0..Len(seq)] ==
            IF i = 0 THEN <<>>
            ELSE InsertBefore(ins[i - 1], seq[i],
                     {k \in DOMAIN ins[i - 1] : SemVer_lt(ins[i - 1][k][1], seq[i][1])})
    IN  ins[Len(seq)]

(* The (SemVer, string) pairs of the strings that parse, in input order. *)
ParsedPairs(version_strings) ==
    SelectSeq([i \in DOMAIN version_strings |->
                  <<SemVer_parse(version_strings[i]), version_strings[i]>>],
              LAMBDA t : t[1] # None)

(* return [v for _, v in parsed] *)
StringsOf(parsed) == [i \in DOMAIN parsed |-> parsed[i][2]]

(* Mutant: only the sort on the numeric key is done. *)
sort_versions_by_semver_desc_key_only(version_strings) ==
    StringsOf(SortDescByKey(ParsedPairs(version_strings)))

(* sort_versions_by_semver_desc: the first sort on the numeric key, then
   the stable sort on the SemVer objects themselves. *)
sort_versions_by_semver_desc(version_strings) ==
    StringsOf(SortDescBySemVer(SortDescByKey(ParsedPairs(version_strings))))

(* ------------------------- registry records --------------------------- *)

TRUSTED == "TRUSTED_RELEASE"
RELEASED == "RELEASED"
QUARANTINE_TAG == "quarantine"
LATEST_TAG == "latest"
BACKUP_BEFORE_LATEST == "original_tag_before_latest"
BACKUP_BEFORE_QUARANTINE == "original_tag_before_quarantine"

(* A record of the listing whose "tag" is JSON null. *)
NullTag == "<null>"

(* tag_str = "" if tag is None else str(tag) *)
NormTag(tag) == IF tag = NullTag THEN "" ELSE tag

(* str(release_status).upper() on the status spellings of the registry. *)
StatusUpper(rs) ==
    IF rs = "released" THEN "RELEASED"
    ELSE IF rs = "trusted_release" THEN "TRUSTED_RELEASE"
    ELSE IF rs = "draft" THEN "DRAFT"
    ELSE rs

EmptyProps == [k \in {} |-> <<>>]

(* index.get(version, 10**9): the rank of a version that did not parse. *)
MissingIndex == 1000000000

(* Mutant: every record is kept, whatever its release status. *)
Normalize_no_filter(versions) ==
    [i \in DOMAIN versions |->
        [version        |-> versions[i].version,
         tag            |-> NormTag(versions[i].tag),
         release_status |-> StatusUpper(versions[i].release_status)]]

(* The eligibility filter and normalisation of get_prod_versions. *)
Normalize(versions) ==
    LET all == [i \in DOMAIN versions |->
                   [version        |-> versions[i].version,
                    tag            |-> NormTag(versions[i].tag),
                    release_status |-> StatusUpper(versions[i].release_status)]]
    IN  SelectSeq(all, LAMBDA v : v.release_status \in {TRUSTED, RELEASED})

(* index = {ver: i for i, ver in enumerate(order)}; index.get(ver, 10**9):
   the last position of a repeated string wins. *)
index_get(order, ver) ==
    LET at == {i \in DOMAIN order : order[i] = ver}
    IN  IF at = {} THEN MissingIndex
        ELSE (CHOOSE i \in at : \A j \in at : j <= i) - 1

(* norm.sort(key=lambda x: index.get(x["version"], 10**9)): ascending, stable. *)
SortByIndex(norm, order) ==
    LET ins[i \in 0..Len(norm)] ==
            IF i = 0 THEN <<>>
            ELSE InsertBefore(ins[i - 1], norm[i],
                     {k \in DOMAIN ins[i - 1] :
                         index_get(order, norm[i].version)
                             < index_get(order, ins[i - 1][k].version)})
    IN  ins[Len(norm)]

(* get_prod_versions, lines 287-291: the normalised records in SemVer order. *)
SortNorm(norm) ==
    SortByIndex(norm, sort_versions_by_semver_desc([i \in DOMAIN norm |-> norm[i].version]))

(* Mutant: records whose version does not parse are dropped from the
   snapshot. *)
get_prod_versions_parseable_only(versions) ==
    SelectSeq(SortNorm(Normalize(versions)),
              LAMBDA v : SemVer_parse(v.version) # None)

(* get_prod_versions, on the "versions" list of the response. *)
get_prod_versions(versions) == SortNorm(Normalize(versions))

(* Mutant: records in quarantine stay among the candidates. *)
pick_next_latest_keeps_quarantine(sorted_prod_versions, exclude_version) ==
    LET kept == SelectSeq(sorted_prod_versions,
                    LAMBDA v : v.version # exclude_version)
        trusted == SelectSeq(kept,
                    LAMBDA v : v.version = kept[1].version /\ v.release_status = TRUSTED)
    IN  IF kept = <<>> THEN None
        ELSE IF trusted # <<>> THEN trusted[1]
        ELSE kept[1]

(* Mutant: the first record of the first version, whatever its status. *)
pick_next_latest_no_preference(sorted_prod_versions, exclude_version) ==
    LET kept == SelectSeq(sorted_prod_versions,
                    LAMBDA v : v.version # exclude_version /\ v.tag # QUARANTINE_TAG)
    IN  IF kept = <<>> THEN None ELSE kept[1]

(* pick_next_latest *)
pick_next_latest(sorted_prod_versions, exclude_version) ==
    LET kept == SelectSeq(sorted_prod_versions,
                    LAMBDA v : v.version # exclude_version /\ v.tag # QUARANTINE_TAG)
        dup_keys == {kept[i].version : i \in DOMAIN kept}
        dup_map(ver) == SelectSeq(kept, LAMBDA v : v.version = ver)
        ordered_unique ==
            SelectSeq([i \in DOMAIN sorted_prod_versions |->
                           [vv |-> sorted_prod_versions[i].version, at |-> i]],
                      LAMBDA e : /\ e.vv # exclude_version
                                 /\ e.vv \in dup_keys
                                 /\ \A j \in 1..(e.at - 1) :
                                        sorted_prod_versions[j].version # e.vv)
        cands   == dup_map(ordered_unique[1].vv)
        trusted == SelectSeq(cands, LAMBDA c : c.release_status = TRUSTED)
    IN  IF dup_keys = {} THEN None
        ELSE IF trusted # <<>> THEN trusted[1]
        ELSE cands[1]

(* Mutant: the lookup accepts a record whose version string begins with
   the target instead of one that equals it. *)
by_version_get_prefix(prod_versions, target_version) ==
    LET hits == {i \in DOMAIN prod_versions :
                    /\ Len(prod_versions[i].version) >= Len(target_version)
                    /\ SubSeq(prod_versions[i].version, 1, Len(target_version))
                           = target_version}
    IN  IF hits = {} THEN None
        ELSE prod_versions[CHOOSE i \in hits : \A j \in hits : j <= i]

(* Mutant: the lookup returns the first record of the version string
   instead of the last. *)
by_version_get_first(prod_versions, target_version) ==
    LET hits == {i \in DOMAIN prod_versions : prod_versions[i].version = target_version}
    IN  IF hits = {} THEN None
        ELSE prod_versions[CHOOSE i \in hits : \A j \in hits : i <= j]

(* by_version = {v["version"]: v for v in prod_versions}; by_version.get(target):
   a later record replaces an earlier one with the same version string. *)
by_version_get(prod_versions, target_version) ==
    LET hits == {i \in DOMAIN prod_versions : prod_versions[i].version = target_version}
    IN  IF hits = {} THEN None
        ELSE prod_versions[CHOOSE i \in hits : \A j \in hits : j <= i]

(* ------------------------- AppTrust client ---------------------------- *)

(* The body of a PATCH: "tag" and "properties" are present only when the
   argument is not None.  <<x>> is a present field, <<>> an omitted one. *)
PatchRequest(version, tag, properties) ==
    [version |-> version, tag |-> tag, properties |-> properties]

(* patch_application_version on one record: the named keys are replaced,
   then the tag; what the request omits is untouched. *)
PatchRecord(v, req) ==
    LET props == IF req.properties = <<>> THEN v.properties
                 ELSE [k \in DOMAIN v.properties \cup DOMAIN req.properties[1] |->
                          IF k \in DOMAIN req.properties[1]
                          THEN req.properties[1][k] ELSE v.properties[k]]
        tag   == IF req.tag = <<>> THEN v.tag ELSE req.tag[1]
    IN  [v EXCEPT !.properties = props, !.tag = tag]

(* patch_application_version: the request names a version string, and the
   records of the registry that carry it are patched. *)
patch_application_version(versions, req) ==
    [i \in DOMAIN versions |->
        IF versions[i].version = req.version
        THEN PatchRecord(versions[i], req) ELSE versions[i]]

(* The requests a step issues, applied in order. *)
RECURSIVE ApplyRequests(_, _)
ApplyRequests(versions, reqs) ==
    IF reqs = <<>> THEN versions
    ELSE ApplyRequests(patch_application_version(versions, Head(reqs)), Tail(reqs))

(* ------------------------- rollback logic ----------------------------- *)

(* Mutant: the tag and the backup property go in two requests. *)
backup_tag_then_patch_two_calls(version, backup_prop_key, new_tag, current_tag, dry) ==
    LET props == [k \in {backup_prop_key} |-> <<current_tag>>]
    IN  IF dry THEN <<>>
        ELSE <<PatchRequest(version, <<new_tag>>, <<>>),
               PatchRequest(version, <<>>, <<props>>)>>

(* Mutant: the dry-run flag is not looked at. *)
backup_tag_then_patch_ignores_dry(version, backup_prop_key, new_tag, current_tag, dry) ==
    LET props == [k \in {backup_prop_key} |-> <<current_tag>>]
    IN  <<PatchRequest(version, <<new_tag>>, <<props>>)>>

(* Mutant: the backup holds the new tag, not the one it replaces. *)
backup_tag_then_patch_new_tag(version, backup_prop_key, new_tag, current_tag, dry) ==
    LET props == [k \in {backup_prop_key} |-> <<new_tag>>]
    IN  IF dry THEN <<>>
        ELSE <<PatchRequest(version, <<new_tag>>, <<props>>)>>

(* backup_tag_then_patch: the requests it sends to the client. *)
backup_tag_then_patch(version, backup_prop_key, new_tag, current_tag, dry) ==
    LET props == [k \in {backup_prop_key} |-> <<current_tag>>]
    IN  IF dry THEN <<>>
        ELSE <<PatchRequest(version, <<new_tag>>, <<props>>)>>

(* set_tag_only: the requests it sends to the client. *)
set_tag_only(version, tag, dry) ==
    IF dry THEN <<>> ELSE <<PatchRequest(version, <<tag>>, <<>>)>>

(* ------------------------- bounds and inputs -------------------------- *)

(* The most records a registry holds.  A behaviour holds one invocation of
   the tool on a registry of MaxRecs records and one more for each record
   fewer. *)
MaxRecs == 3

V140    == <<"1", ".", "4", ".", "0">>
V132    == <<"1", ".", "3", ".", "2">>
V140rc1 == <<"1", ".", "4", ".", "0", "-", "r", "c", ".", "1">>
V12x    == <<"1", ".", "2", ".", "x">>

VersionPool == {V140, V132, V140rc1, V12x}

Rec(version, tag, release_status, properties) ==
    [version |-> version, tag |-> tag, release_status |-> release_status,
     properties |-> properties]

(* The records a registry is drawn from: every reserved tag, a free label,
   an absent tag; both PROD statuses, a status spelt in lower case and one
   that is not PROD; a prerelease and a string that is no SemVer; records
   that share a version string. *)
RecordPool ==
    { Rec(V140,    LATEST_TAG,     RELEASED,   EmptyProps),
      Rec(V140,    "",             TRUSTED,    EmptyProps),
      Rec(V132,    "",             "released", EmptyProps),
      Rec(V132,    "stable",       TRUSTED,    [evidence |-> <<"signed">>]),
      Rec(V132,    QUARANTINE_TAG, RELEASED,
          [original_tag_before_quarantine |-> <<"stable">>]),
      Rec(V132,    LATEST_TAG,     "DRAFT",    EmptyProps),
      Rec(V140rc1, NullTag,        RELEASED,   EmptyProps),
      Rec(V140rc1, LATEST_TAG,     RELEASED,   EmptyProps),
      Rec(V12x,    "",             RELEASED,   EmptyProps) }

Registries == UNION {[1..n -> RecordPool] : n \in 0..MaxRecs}

(* Version strings for the calls of the SemVer helpers on their own. *)
P100 == <<"1", ".", "0", ".", "0">>
Pv100 == <<"v", "1", ".", "0", ".", "0">>
P100build == <<"1", ".", "0", ".", "0", "+", "b", "u", "i", "l", "d", ".", "5">>
P100alpha == <<"1", ".", "0", ".", "0", "-", "a", "l", "p", "h", "a">>
P100alpha1 == <<"1", ".", "0", ".", "0", "-", "a", "l", "p", "h", "a", ".", "1">>
P100alphabeta == <<"1", ".", "0", ".", "0", "-", "a", "l", "p", "h", "a", ".", "b", "e", "t", "a">>
P100beta2 == <<"1", ".", "0", ".", "0", "-", "b", "e", "t", "a", ".", "2">>
P100beta11 == <<"1", ".", "0", ".", "0", "-", "b", "e", "t", "a", ".", "1", "1">>
P100Beta == <<"1", ".", "0", ".", "0", "-", "B", "e", "t", "a">>
P101rc1 == <<"1", ".", "0", ".", "1", "-", "r", "c", ".", "1">>
P120 == <<"1", ".", "2", ".", "0">>
P1100 == <<"1", ".", "1", "0", ".", "0">>
P200 == <<"2", ".", "0", ".", "0">>
P130 == <<"1", ".", "3", ".", "0">>
PNotAVersion == <<"n", "o", "t", "-", "a", "-", "v", "e", "r", "s", "i", "o", "n">>

(* The arguments of compare_semver: parseable strings. *)
CompareInputs ==
    {P100, Pv100, P100build, P100alpha, P100alpha1, P100alphabeta, P100beta2,
     P100beta11, P100Beta, P101rc1, P120, P1100, P200}

(* The longest list given to sort_versions_by_semver_desc. *)
MaxSortLen == 3

(* The elements of the lists given to sort_versions_by_semver_desc. *)
SortPool == {P100, Pv100, P100alpha, P100beta2, P100beta11, P130, V12x, PNotAVersion}

SortInputs == UNION {[1..n -> SortPool] : n \in 0..MaxSortLen}

(* The arguments of SemVer.parse, each with the way it departs from
   [v]MAJOR.MINOR.PATCH[-PRERELEASE][+BUILD], "none" when it does not. *)
ParseInputs ==
    {
      [version |-> <<"1", ".", "2", ".", "3">>, defect |-> "none"],
      [version |-> <<"v", "1", ".", "2", ".", "3">>, defect |-> "none"],
      [version |-> <<"0", ".", "0", ".", "0">>, defect |-> "none"],
      [version |-> <<"1", ".", "2", ".", "3", "-", "a", "l", "p", "h", "a", ".", "1">>, defect |-> "none"],
      [version |-> <<"1", ".", "2", ".", "3", "+", "b", "u", "i", "l", "d", ".", "5">>, defect |-> "none"],
      [version |-> <<"1", ".", "2", ".", "3", "-", "0">>, defect |-> "none"],
      [version |-> <<"1", ".", "2", ".", "3", "-", "r", "c", "-", "1", "+", "b", ".", "7">>, defect |-> "none"],
      [version |-> <<"1", "0", ".", "2", "0", ".", "3", "0">>, defect |-> "none"],
      [version |-> <<"0", "1", ".", "2", ".", "3">>, defect |-> "leading_zero"],
      [version |-> <<"1", ".", "0", "2", ".", "3">>, defect |-> "leading_zero"],
      [version |-> <<"1", ".", "2", ".", "0", "3">>, defect |-> "leading_zero"],
      [version |-> <<"1", ".", "2", ".", "3", "-", "0", "1">>, defect |-> "leading_zero"],
      [version |-> <<"1", ".", "2", ".", "3", "-", "a", ".", "0", "0">>, defect |-> "leading_zero"],
      [version |-> <<"1", ".", "2">>, defect |-> "missing_component"],
      [version |-> <<"1", ".", ".", "3">>, defect |-> "missing_component"],
      [version |-> <<".", "2", ".", "3">>, defect |-> "missing_component"],
      [version |-> <<"1", ".", "2", ".">>, defect |-> "missing_component"],
      [version |-> <<>>, defect |-> "missing_component"],
      [version |-> <<"1", ".", "2", ".", "3", "-">>, defect |-> "empty_identifier"],
      [version |-> <<"1", ".", "2", ".", "3", "-", "a", ".", ".", "b">>, defect |-> "empty_identifier"],
      [version |-> <<"1", ".", "2", ".", "3", "-", ".", "a">>, defect |-> "empty_identifier"],
      [version |-> <<"1", ".", "2", ".", "3", "-", "a", ".">>, defect |-> "empty_identifier"],
      [version |-> <<"x", "1", ".", "2", ".", "3">>, defect |-> "extra_character"],
      [version |-> <<"V", "1", ".", "2", ".", "3">>, defect |-> "extra_character"],
      [version |-> <<"=", "1", ".", "2", ".", "3">>, defect |-> "extra_character"],
      [version |-> <<"v", "v", "1", ".", "2", ".", "3">>, defect |-> "extra_character"],
      [version |-> <<"1", ".", "2", ".", "3", "!">>, defect |-> "extra_character"],
      [version |-> <<"1", ".", "2", ".", "3", ".", "4">>, defect |-> "extra_character"],
      [version |-> <<"1", ".", "2", ".", "3", " ", "x">>, defect |-> "extra_character"],
      [version |-> <<"1", ".", "2", ".", "3", "+">>, defect |-> "extra_character"],
      [version |-> <<" ", "1", ".", "2", ".", "3">>, defect |-> "outer_whitespace"],
      [version |-> <<"1", ".", "2", ".", "3", " ">>, defect |-> "outer_whitespace"],
      [version |-> <<"1", ".", "2", ".", "3", "\n">>, defect |-> "outer_whitespace"],
      [version |-> <<"\t", " ", "v", "1", ".", "2", ".", "3", "-", "r", "c", ".", "1", " ">>, defect |-> "outer_whitespace"] }

(* ------------------------- state -------------------------------------- *)

VARIABLES
    registry,        \* the records of the application in AppTrust
    pc,              \* where the process is: idle, list, patch1, patch2, done
    target_version,  \* --version
    dry_run,         \* --dry-run
    prod_versions,   \* rollback_in_prod: the snapshot
    current_tag,     \* rollback_in_prod: target.get("tag", "")
    had_latest,      \* rollback_in_prod: current_tag == LATEST_TAG
    next_candidate,  \* rollback_in_prod: the successor, or None
    patched,         \* the PATCH requests this invocation has sent
    reads,           \* the list requests this invocation has sent
    outcome,         \* how rollback_in_prod ended
    exit_code,       \* what main returned; -1 while it has not
    reg0,            \* the registry when this invocation started
    runs,            \* the invocations so far
    dry_twin,        \* the decisions of the dry run just before this live
                     \* run, when it had the same target; else NoTwin
    called,          \* the SemVer helper called on its own, with its arguments
    returned         \* what that call returned

vars == <<registry, pc, target_version, dry_run, prod_versions, current_tag,
          had_latest, next_candidate, patched, reads, outcome, exit_code,
          reg0, runs, dry_twin, called, returned>>

NoTwin == [twin |-> FALSE]

(* No SemVer helper has been called on its own. *)
NoCall == [fn |-> "none"]

(* Outcomes in which no call raised and the process was not stopped. *)
CleanOutcomes == {"not_found", "non_latest", "no_successor", "reassigned"}

(* What an invocation decided. *)
Decision ==
    [found      |-> outcome # "not_found",
     had_latest |-> had_latest,
     successor  |-> IF next_candidate = None THEN <<>> ELSE <<next_candidate.version>>]

Init ==
    /\ registry \in Registries
    /\ pc = "idle"
    /\ target_version = <<>>
    /\ dry_run = FALSE
    /\ prod_versions = <<>>
    /\ current_tag = ""
    /\ had_latest = FALSE
    /\ next_candidate = None
    /\ patched = <<>>
    /\ reads = 0
    /\ outcome = "none"
    /\ exit_code = -1
    /\ reg0 = registry
    /\ runs = 0
    /\ dry_twin = NoTwin
    /\ called = NoCall
    /\ returned = None

(* main: the arguments parse and rollback_in_prod is called. *)
main(version, dry) ==
    /\ pc \in {"idle", "done"}
    /\ runs + Len(registry) <= MaxRecs
    /\ runs' = runs + 1
    /\ pc' = "list"
    /\ target_version' = version
    /\ dry_run' = dry
    /\ prod_versions' = <<>>
    /\ current_tag' = ""
    /\ had_latest' = FALSE
    /\ next_candidate' = None
    /\ patched' = <<>>
    /\ reads' = 0
    /\ outcome' = "running"
    /\ exit_code' = -1
    /\ reg0' = registry
    /\ dry_twin' = IF /\ pc = "done" /\ dry_run /\ ~dry
                      /\ outcome \in CleanOutcomes /\ target_version = version
                   THEN [twin |-> TRUE, decision |-> Decision]
                   ELSE NoTwin
    /\ UNCHANGED registry
    /\ UNCHANGED <<called, returned>>

(* main, line 417: parse_args rejects the command line and exits with
   status 2; rollback_in_prod is not called. *)
main_bad_arguments ==
    /\ pc \in {"idle", "done"}
    /\ runs + Len(registry) <= MaxRecs
    /\ runs' = runs + 1
    /\ pc' = "done"
    /\ target_version' = <<>>
    /\ dry_run' = FALSE
    /\ prod_versions' = <<>>
    /\ current_tag' = ""
    /\ had_latest' = FALSE
    /\ next_candidate' = None
    /\ patched' = <<>>
    /\ reads' = 0
    /\ outcome' = "usage"
    /\ exit_code' = 2
    /\ reg0' = registry
    /\ dry_twin' = NoTwin
    /\ UNCHANGED registry
    /\ UNCHANGED <<called, returned>>

(* rollback_in_prod, lines 357-364: the snapshot is fetched, the target
   looked up; RuntimeError when it is absent. *)
rollback_list ==
    /\ pc = "list"
    /\ prod_versions' = get_prod_versions(registry)
    /\ LET target == by_version_get(prod_versions', target_version)
       IN  /\ reads' = reads + 1
           /\ IF target = None
              THEN /\ pc' = "done"
                   /\ outcome' = "not_found"
                   /\ exit_code' = 1
                   /\ UNCHANGED <<current_tag, had_latest>>
              ELSE /\ pc' = "patch1"
                   /\ current_tag' = target.tag
                   /\ had_latest' = (target.tag = LATEST_TAG)
                   /\ UNCHANGED <<outcome, exit_code>>
    /\ UNCHANGED <<registry, target_version, dry_run, next_candidate, patched,
                   reg0, runs, dry_twin>>
    /\ UNCHANGED <<called, returned>>

(* Mutant: main returns 0 after the error of the list call. *)
rollback_list_fails_exit_zero ==
    /\ pc = "list"
    /\ pc' = "done"
    /\ reads' = reads + 1
    /\ outcome' = "list_failed"
    /\ exit_code' = 0
    /\ UNCHANGED <<registry, target_version, dry_run, prod_versions, current_tag,
                   had_latest, next_candidate, patched, reg0, runs, dry_twin>>
    /\ UNCHANGED <<called, returned>>

(* list_application_versions raises: main prints the error and returns 1. *)
rollback_list_fails ==
    /\ pc = "list"
    /\ pc' = "done"
    /\ reads' = reads + 1
    /\ outcome' = "list_failed"
    /\ exit_code' = 1
    /\ UNCHANGED <<registry, target_version, dry_run, prod_versions, current_tag,
                   had_latest, next_candidate, patched, reg0, runs, dry_twin>>
    /\ UNCHANGED <<called, returned>>

(* Mutant: a dry run stops after logging step 1. *)
rollback_quarantine_dry_stub ==
    /\ pc = "patch1"
    /\ LET reqs == backup_tag_then_patch(target_version, BACKUP_BEFORE_QUARANTINE,
                                         QUARANTINE_TAG, current_tag, dry_run)
           cand == pick_next_latest(prod_versions, target_version)
       IN  /\ registry' = ApplyRequests(registry, reqs)
           /\ patched' = patched \o reqs
           /\ IF ~had_latest \/ dry_run
              THEN /\ pc' = "done"
                   /\ outcome' = "non_latest"
                   /\ exit_code' = 0
                   /\ UNCHANGED next_candidate
              ELSE IF cand = None
              THEN /\ pc' = "done"
                   /\ outcome' = "no_successor"
                   /\ exit_code' = 0
                   /\ UNCHANGED next_candidate
              ELSE /\ pc' = "patch2"
                   /\ next_candidate' = cand
                   /\ UNCHANGED <<outcome, exit_code>>
    /\ UNCHANGED <<target_version, dry_run, prod_versions, current_tag, had_latest,
                   reads, reg0, runs, dry_twin>>
    /\ UNCHANGED <<called, returned>>

(* Mutant: the registry is listed again after step 1 and the successor is
   chosen from the new snapshot. *)
rollback_quarantine_relists ==
    /\ pc = "patch1"
    /\ LET reqs == backup_tag_then_patch(target_version, BACKUP_BEFORE_QUARANTINE,
                                         QUARANTINE_TAG, current_tag, dry_run)
       IN  /\ registry' = ApplyRequests(registry, reqs)
           /\ patched' = patched \o reqs
           /\ IF ~had_latest
              THEN /\ pc' = "done"
                   /\ outcome' = "non_latest"
                   /\ exit_code' = 0
                   /\ UNCHANGED <<next_candidate, reads, prod_versions>>
              ELSE /\ reads' = reads + 1
                   /\ prod_versions' = get_prod_versions(registry')
                   /\ IF pick_next_latest(prod_versions', target_version) = None
                      THEN /\ pc' = "done"
                           /\ outcome' = "no_successor"
                           /\ exit_code' = 0
                           /\ UNCHANGED next_candidate
                      ELSE /\ pc' = "patch2"
                           /\ next_candidate' = pick_next_latest(prod_versions', target_version)
                           /\ UNCHANGED <<outcome, exit_code>>
    /\ UNCHANGED <<target_version, dry_run, current_tag, had_latest,
                   reg0, runs, dry_twin>>
    /\ UNCHANGED <<called, returned>>

(* rollback_in_prod, lines 366-383 and 397-398: step 1 returns; then the
   successor is chosen when the target had latest. *)
rollback_quarantine ==
    /\ pc = "patch1"
    /\ LET reqs == backup_tag_then_patch(target_version, BACKUP_BEFORE_QUARANTINE,
                                         QUARANTINE_TAG, current_tag, dry_run)
           cand == pick_next_latest(prod_versions, target_version)
       IN  /\ registry' = ApplyRequests(registry, reqs)
           /\ patched' = patched \o reqs
           /\ IF ~had_latest
              THEN /\ pc' = "done"
                   /\ outcome' = "non_latest"
                   /\ exit_code' = 0
                   /\ UNCHANGED next_candidate
              ELSE IF cand = None
              THEN /\ pc' = "done"
                   /\ outcome' = "no_successor"
                   /\ exit_code' = 0
                   /\ UNCHANGED next_candidate
              ELSE /\ pc' = "patch2"
                   /\ next_candidate' = cand
                   /\ UNCHANGED <<outcome, exit_code>>
    /\ UNCHANGED <<target_version, dry_run, prod_versions, current_tag, had_latest,
                   reads, reg0, runs, dry_twin>>
    /\ UNCHANGED <<called, returned>>

(* Mutant: step 2 backs up the target's tag instead of the candidate's. *)
rollback_reassign_target_tag ==
    /\ pc = "patch2"
    /\ LET reqs == backup_tag_then_patch(next_candidate.version, BACKUP_BEFORE_LATEST,
                                         LATEST_TAG, current_tag, dry_run)
       IN  /\ registry' = ApplyRequests(registry, reqs)
           /\ patched' = patched \o reqs
    /\ pc' = "done"
    /\ outcome' = "reassigned"
    /\ exit_code' = 0
    /\ UNCHANGED <<target_version, dry_run, prod_versions, current_tag, had_latest,
                   next_candidate, reads, reg0, runs, dry_twin>>
    /\ UNCHANGED <<called, returned>>

(* rollback_in_prod, lines 384-396: step 2 returns. *)
rollback_reassign ==
    /\ pc = "patch2"
    /\ LET reqs == backup_tag_then_patch(next_candidate.version, BACKUP_BEFORE_LATEST,
                                         LATEST_TAG, next_candidate.tag, dry_run)
       IN  /\ registry' = ApplyRequests(registry, reqs)
           /\ patched' = patched \o reqs
    /\ pc' = "done"
    /\ outcome' = "reassigned"
    /\ exit_code' = 0
    /\ UNCHANGED <<target_version, dry_run, prod_versions, current_tag, had_latest,
                   next_candidate, reads, reg0, runs, dry_twin>>
    /\ UNCHANGED <<called, returned>>

(* The request a live step is about to send. *)
PendingRequests ==
    IF pc = "patch1"
    THEN backup_tag_then_patch(target_version, BACKUP_BEFORE_QUARANTINE,
                               QUARANTINE_TAG, current_tag, dry_run)
    ELSE backup_tag_then_patch(next_candidate.version, BACKUP_BEFORE_LATEST,
                               LATEST_TAG, next_candidate.tag, dry_run)

(* Mutant: the error of the quarantine PATCH is swallowed and step 2 goes
   ahead. *)
rollback_patch_fails_goes_on(applied) ==
    /\ pc \in {"patch1", "patch2"}
    /\ PendingRequests # <<>>
    /\ registry' = IF applied THEN ApplyRequests(registry, <<Head(PendingRequests)>>)
                   ELSE registry
    /\ patched' = patched \o <<Head(PendingRequests)>>
    /\ IF pc = "patch1" /\ had_latest
          /\ pick_next_latest(prod_versions, target_version) # None
       THEN /\ pc' = "patch2"
            /\ next_candidate' = pick_next_latest(prod_versions, target_version)
            /\ UNCHANGED <<outcome, exit_code>>
       ELSE /\ pc' = "done"
            /\ outcome' = "patch_failed"
            /\ exit_code' = 1
            /\ UNCHANGED next_candidate
    /\ UNCHANGED <<target_version, dry_run, prod_versions, current_tag, had_latest,
                   reads, reg0, runs, dry_twin>>
    /\ UNCHANGED <<called, returned>>

(* Mutant: the failed PATCH is sent a second time before giving up. *)
rollback_patch_fails_retries(applied) ==
    /\ pc \in {"patch1", "patch2"}
    /\ PendingRequests # <<>>
    /\ registry' = IF applied THEN ApplyRequests(registry, <<Head(PendingRequests)>>)
                   ELSE registry
    /\ patched' = patched \o <<Head(PendingRequests), Head(PendingRequests)>>
    /\ pc' = "done"
    /\ outcome' = "patch_failed"
    /\ exit_code' = 1
    /\ UNCHANGED <<target_version, dry_run, prod_versions, current_tag, had_latest,
                   next_candidate, reads, reg0, runs, dry_twin>>
    /\ UNCHANGED <<called, returned>>

(* patch_application_version raises: the request was sent, and the registry
   either rejected it or applied it before the failure was reported.
   rollback_in_prod propagates the error; main returns 1. *)
rollback_patch_fails(applied) ==
    /\ pc \in {"patch1", "patch2"}
    /\ PendingRequests # <<>>
    /\ registry' = IF applied THEN ApplyRequests(registry, <<Head(PendingRequests)>>)
                   ELSE registry
    /\ patched' = patched \o <<Head(PendingRequests)>>
    /\ pc' = "done"
    /\ outcome' = "patch_failed"
    /\ exit_code' = 1
    /\ UNCHANGED <<target_version, dry_run, prod_versions, current_tag, had_latest,
                   next_candidate, reads, reg0, runs, dry_twin>>
    /\ UNCHANGED <<called, returned>>

(* The process is stopped between two calls. *)
process_stops ==
    /\ pc \in {"list", "patch1", "patch2"}
    /\ pc' = "done"
    /\ outcome' = "stopped"
    /\ UNCHANGED <<registry, target_version, dry_run, prod_versions, current_tag,
                   had_latest, next_candidate, patched, reads, exit_code, reg0,
                   runs, dry_twin>>
    /\ UNCHANGED <<called, returned>>

Next ==
    \/ \E version \in VersionPool, dry \in BOOLEAN : main(version, dry)
    \/ main_bad_arguments
    \/ rollback_list
    \/ rollback_list_fails
    \/ rollback_quarantine
    \/ rollback_reassign
    \/ \E applied \in BOOLEAN : rollback_patch_fails(applied)
    \/ process_stops

Spec == Init /\ [][Next]_vars

(* ------------------------- the SemVer helpers on their own ------------ *)

(* The rollback variables, which a helper call leaves alone. *)
rollback_vars ==
    <<registry, pc, target_version, dry_run, prod_versions, current_tag,
      had_latest, next_candidate, patched, reads, outcome, exit_code,
      reg0, runs, dry_twin>>

SemVerInit == Init /\ registry = <<>>

(* SemVer.parse(version). *)
call_parse(input) ==
    /\ called = NoCall
    /\ called' = [fn |-> "parse", version |-> input.version, defect |-> input.defect]
    /\ returned' = SemVer_parse(input.version)
    /\ UNCHANGED rollback_vars

(* compare_semver on each pair out of three parsed versions. *)
call_compare(a, b, c) ==
    /\ called = NoCall
    /\ called' = [fn |-> "compare", a |-> a, b |-> b, c |-> c]
    /\ returned' = [aa |-> compare_semver(SemVer_parse(a), SemVer_parse(a)),
                    ab |-> compare_semver(SemVer_parse(a), SemVer_parse(b)),
                    ba |-> compare_semver(SemVer_parse(b), SemVer_parse(a)),
                    bc |-> compare_semver(SemVer_parse(b), SemVer_parse(c)),
                    ac |-> compare_semver(SemVer_parse(a), SemVer_parse(c))]
    /\ UNCHANGED rollback_vars

(* sort_versions_by_semver_desc(version_strings). *)
call_sort(version_strings) ==
    /\ called = NoCall
    /\ called' = [fn |-> "sort", version_strings |-> version_strings]
    /\ returned' = sort_versions_by_semver_desc(version_strings)
    /\ UNCHANGED rollback_vars

SemVerNext ==
    \/ \E input \in ParseInputs : call_parse(input)
    \/ \E a, b, c \in CompareInputs : call_compare(a, b, c)
    \/ \E version_strings \in SortInputs : call_sort(version_strings)

SemVerSpec == SemVerInit /\ [][SemVerNext]_vars

(* ------------------------- properties --------------------------------- *)

(* The backup property that goes with a reserved tag. *)
BackupKeyOf(tag) ==
    IF tag = QUARANTINE_TAG THEN BACKUP_BEFORE_QUARANTINE ELSE BACKUP_BEFORE_LATEST

(* A request that carries a reserved tag together with its backup property,
   a one-element list, and nothing else. *)
IsCombinedPatch(req) ==
    /\ req.tag # <<>>
    /\ req.tag[1] \in {QUARANTINE_TAG, LATEST_TAG}
    /\ req.properties # <<>>
    /\ DOMAIN req.properties[1] = {BackupKeyOf(req.tag[1])}
    /\ Len(req.properties[1][BackupKeyOf(req.tag[1])]) = 1

(* The live invocation got past its first patch. *)
FirstPatchDone ==
    /\ ~dry_run
    /\ \/ pc = "patch2"
       \/ pc = "done" /\ outcome \in {"non_latest", "no_successor", "reassigned"}
       \/ pc = "done" /\ outcome \in {"stopped", "patch_failed"} /\ next_candidate # None

(* The records of the snapshot that successor selection may choose from. *)
IsCandidate(v) == v.version # target_version /\ v.tag # QUARANTINE_TAG

(* C1: every request rollback has sent carries the new tag together with
   the matching backup property, and every record whose tag differs from
   the one it had when the invocation started got that tag from a request
   that also wrote the backup property the record now holds; this in every
   state, those after a failed call or a stopped process included. *)
C1_CombinedPatch ==
    /\ \A k \in DOMAIN patched : IsCombinedPatch(patched[k])
    /\ \A i \in DOMAIN registry :
           registry[i].tag # reg0[i].tag =>
               \E k \in DOMAIN patched :
                   /\ patched[k].version = registry[i].version
                   /\ patched[k].tag = <<registry[i].tag>>
                   /\ patched[k].properties # <<>>
                   /\ BackupKeyOf(registry[i].tag) \in DOMAIN registry[i].properties
                   /\ registry[i].properties[BackupKeyOf(registry[i].tag)]
                          = patched[k].properties[1][BackupKeyOf(registry[i].tag)]

(* C1 witness: the process stopped, or the second call failed, after the
   quarantine patch had changed the registry. *)
C1_Witness ==
    /\ pc = "done"
    /\ outcome \in {"stopped", "patch_failed"}
    /\ next_candidate # None
    /\ \E i \in DOMAIN registry :
           registry[i].tag = QUARANTINE_TAG /\ reg0[i].tag = LATEST_TAG

(* C2: a dry run sends no PATCH and leaves every record as it was. *)
C2_DryRunNoMutation == dry_run => (patched = <<>> /\ registry = reg0)

(* C2 witness: a dry run that went through both steps. *)
C2_Witness == dry_run /\ pc = "done" /\ outcome = "reassigned" /\ registry # <<>>

(* C3: a live run that follows a dry run of the same target on the same
   registry decides as the dry run did (target found or not, had_latest,
   the successor or none), and differs in that it sent its patches. *)
C3_DryLiveSameDecisions ==
    (pc = "done" /\ ~dry_run /\ dry_twin.twin /\ outcome \in CleanOutcomes)
        => /\ dry_twin.decision = Decision
           /\ Decision.found => patched # <<>>

(* C3 witness: the pair of runs reassigned latest. *)
C3_Witness ==
    /\ pc = "done" /\ ~dry_run /\ dry_twin.twin
    /\ outcome = "reassigned"
    /\ Len(patched) = 2

(* C4: when the snapshot holds no record whose version string equals the
   target, rollback raises target-not-found (main returns non-zero), sends
   no PATCH and leaves the registry as it was. *)
C4_TargetNotFound ==
    (/\ pc = "done"
     /\ outcome \notin {"list_failed", "stopped", "usage"}
     /\ \A j \in DOMAIN prod_versions : prod_versions[j].version # target_version)
        => /\ outcome = "not_found"
           /\ exit_code > 0
           /\ patched = <<>>
           /\ registry = reg0

(* C4 witness: the target is absent from a snapshot that holds a record
   whose version string begins with it. *)
C4_Witness ==
    /\ pc = "done"
    /\ outcome = "not_found"
    /\ target_version = V140
    /\ \E j \in DOMAIN prod_versions : prod_versions[j].version = V140rc1

(* C5: once the first patch of a live rollback has succeeded, every record
   that carries the target's version string is tagged quarantine and holds
   original_tag_before_quarantine = [t], t being the tag the looked-up
   target had in the snapshot. *)
C5_QuarantineWithBackup ==
    FirstPatchDone =>
        /\ \E j \in DOMAIN prod_versions :
               prod_versions[j].version = target_version /\ prod_versions[j].tag = current_tag
        /\ \E i \in DOMAIN registry : registry[i].version = target_version
        /\ \A i \in DOMAIN registry :
               registry[i].version = target_version =>
                   /\ registry[i].tag = QUARANTINE_TAG
                   /\ BACKUP_BEFORE_QUARANTINE \in DOMAIN registry[i].properties
                   /\ registry[i].properties[BACKUP_BEFORE_QUARANTINE] = <<current_tag>>

(* C5 witness: the target carried a free label. *)
C5_Witness ==
    /\ FirstPatchDone
    /\ pc = "done"
    /\ \E i \in DOMAIN registry :
           /\ registry[i].version = target_version
           /\ reg0[i].tag = "stable"
           /\ registry[i].properties[BACKUP_BEFORE_QUARANTINE] = <<"stable">>

(* C6: a live rollback of a target that had latest, with a candidate in the
   snapshot and no failing call, ends with latest reassigned: a record of
   the successor's version and status is tagged latest and holds
   original_tag_before_latest = [the tag it had before the reassignment]. *)
C6_SuccessorLatest ==
    (/\ pc = "done" /\ ~dry_run /\ outcome \in CleanOutcomes
     /\ had_latest
     /\ \E j \in DOMAIN prod_versions : IsCandidate(prod_versions[j]))
        => /\ outcome = "reassigned"
           /\ \E i \in DOMAIN registry :
                  /\ registry[i].version = next_candidate.version
                  /\ StatusUpper(registry[i].release_status) = next_candidate.release_status
                  /\ registry[i].tag = LATEST_TAG
                  /\ BACKUP_BEFORE_LATEST \in DOMAIN registry[i].properties
                  /\ registry[i].properties[BACKUP_BEFORE_LATEST] = <<NormTag(reg0[i].tag)>>

(* C6 witness: the successor carried a free label before. *)
C6_Witness ==
    /\ pc = "done" /\ ~dry_run /\ outcome = "reassigned"
    /\ \E i \in DOMAIN registry :
           /\ registry[i].version = next_candidate.version
           /\ reg0[i].tag = "stable"
           /\ registry[i].tag = LATEST_TAG

(* A live rollback that found its target without latest and hit no
   failing call. *)
NonLatestDone ==
    /\ pc = "done" /\ ~dry_run /\ outcome \in CleanOutcomes
    /\ outcome # "not_found"
    /\ current_tag # LATEST_TAG

(* No record holds an original_tag_before_latest it did not hold when the
   invocation started. *)
NoLatestBackupWritten ==
    \A i \in DOMAIN registry :
        BACKUP_BEFORE_LATEST \in DOMAIN registry[i].properties
            => /\ BACKUP_BEFORE_LATEST \in DOMAIN reg0[i].properties
               /\ registry[i].properties[BACKUP_BEFORE_LATEST]
                      = reg0[i].properties[BACKUP_BEFORE_LATEST]

(* C7: a live rollback whose target's tag in the snapshot is not latest
   sends exactly one PATCH (the quarantine of the target), selects no
   successor, leaves every record that was tagged latest as it was, and
   writes no original_tag_before_latest. *)
C7_NonLatestOnePatch ==
    NonLatestDone =>
        /\ outcome = "non_latest"
        /\ Len(patched) = 1
        /\ patched[1].version = target_version
        /\ patched[1].tag = <<QUARANTINE_TAG>>
        /\ next_candidate = None
        /\ \A i \in DOMAIN registry : reg0[i].tag = LATEST_TAG => registry[i] = reg0[i]
        /\ NoLatestBackupWritten

(* The part of C7 that the code keeps: one PATCH, no successor, no
   original_tag_before_latest, and no record of another version string
   touched. *)
NonLatestOtherVersionsUntouched ==
    NonLatestDone =>
        /\ outcome = "non_latest"
        /\ Len(patched) = 1
        /\ patched[1].version = target_version
        /\ patched[1].tag = <<QUARANTINE_TAG>>
        /\ next_candidate = None
        /\ \A i \in DOMAIN registry :
               reg0[i].version # target_version => registry[i] = reg0[i]
        /\ NoLatestBackupWritten

(* A live rollback of a target that had latest, with no candidate in the
   snapshot, that hit no failing call. *)
NoCandidateDone ==
    /\ pc = "done" /\ ~dry_run /\ outcome \in CleanOutcomes
    /\ outcome # "not_found"
    /\ current_tag = LATEST_TAG
    /\ \A j \in DOMAIN prod_versions : ~IsCandidate(prod_versions[j])

(* The rollback ended without error after the quarantine patch alone. *)
EndsAfterQuarantineAlone ==
    /\ outcome = "no_successor"
    /\ exit_code = 0
    /\ Len(patched) = 1
    /\ patched[1].version = target_version
    /\ patched[1].tag = <<QUARANTINE_TAG>>

(* C8 as stated: the target had latest and the candidate set is empty; the
   rollback ends successfully after the quarantine patch alone and
   afterwards no record is tagged latest. *)
C8_NoRecordLatest ==
    NoCandidateDone =>
        /\ EndsAfterQuarantineAlone
        /\ \A i \in DOMAIN registry : registry[i].tag # LATEST_TAG

(* C8, amended: the target had latest and the candidate set is empty; the
   rollback ends successfully after the quarantine patch alone and
   afterwards no record whose release status is RELEASED or TRUSTED_RELEASE
   is tagged latest. *)
C8_NoProdRecordLatest ==
    NoCandidateDone =>
        /\ EndsAfterQuarantineAlone
        /\ \A i \in DOMAIN registry :
               StatusUpper(registry[i].release_status) \in {TRUSTED, RELEASED}
                   => registry[i].tag # LATEST_TAG

(* C8 witness: the only other record of the snapshot was in quarantine
   already. *)
C8_Witness ==
    /\ NoCandidateDone
    /\ \E j \in DOMAIN prod_versions : prod_versions[j].version # target_version
    /\ \E i \in DOMAIN registry : reg0[i].tag = LATEST_TAG /\ registry[i].tag = QUARANTINE_TAG

(* C9: the successor is a candidate of the snapshot (not the target's
   version, not in quarantine) and, when the candidates' versions parse, no
   candidate has a version above the successor's under compare_semver. *)
C9_SuccessorIsMax ==
    next_candidate # None =>
        /\ \E j \in DOMAIN prod_versions :
               /\ IsCandidate(prod_versions[j])
               /\ prod_versions[j].version = next_candidate.version
        /\ \A j \in DOMAIN prod_versions :
               (IsCandidate(prod_versions[j]) /\ SemVer_parse(prod_versions[j].version) # None)
                   => /\ SemVer_parse(next_candidate.version) # None
                      /\ compare_semver(SemVer_parse(prod_versions[j].version),
                                        SemVer_parse(next_candidate.version)) <= 0

(* C9 witness: the successor is the release 1.4.0, above the target
   1.4.0-rc.1, and 1.3.2 is a candidate too. *)
C9_Witness ==
    /\ pc = "done" /\ outcome = "reassigned"
    /\ target_version = V140rc1
    /\ next_candidate.version = V140
    /\ \E j \in DOMAIN prod_versions :
           IsCandidate(prod_versions[j]) /\ prod_versions[j].version = V132

(* The candidates that carry the successor's version string, in snapshot
   order. *)
SuccessorDuplicates ==
    SelectSeq(prod_versions,
              LAMBDA v : IsCandidate(v) /\ v.version = next_candidate.version)

(* C10: among the candidates that share the successor's version string the
   successor is a TRUSTED_RELEASE one when there is one (the first such),
   and the first of them in snapshot order otherwise. *)
C10_DuplicatePreference ==
    next_candidate # None =>
        LET dups == SuccessorDuplicates
            trusted == SelectSeq(dups, LAMBDA v : v.release_status = TRUSTED)
        IN  /\ dups # <<>>
            /\ next_candidate = (IF trusted # <<>> THEN trusted[1] ELSE dups[1])

(* C10 witness: two candidates share the successor's version, the first is
   RELEASED and the chosen one is TRUSTED_RELEASE. *)
C10_Witness ==
    /\ next_candidate # None
    /\ Len(SuccessorDuplicates) >= 2
    /\ SuccessorDuplicates[1].release_status = RELEASED
    /\ next_candidate.release_status = TRUSTED

(* Two RELEASED candidates with different tags share the successor's
   version and the first encountered is the one chosen. *)
C10_FirstEncountered ==
    /\ next_candidate # None
    /\ Len(SuccessorDuplicates) >= 2
    /\ \A k \in DOMAIN SuccessorDuplicates : SuccessorDuplicates[k].release_status = RELEASED
    /\ SuccessorDuplicates[1].tag # SuccessorDuplicates[2].tag
    /\ next_candidate = SuccessorDuplicates[1]

(* The records of the registry, as it was when the invocation started,
   that the snapshot record v stands for. *)
RecordsOf(v) ==
    {i \in DOMAIN reg0 :
        /\ reg0[i].version = v.version
        /\ NormTag(reg0[i].tag) = v.tag
        /\ StatusUpper(reg0[i].release_status) = v.release_status}

(* The records on which this invocation has set the tag latest. *)
MadeLatest ==
    {i \in DOMAIN registry : registry[i].tag = LATEST_TAG /\ registry[i] # reg0[i]}

(* C11: the record successor selection returns has neither the target's
   version string nor the tag quarantine, and rollback sets latest neither
   on a record of the version it has just quarantined nor on a record that
   was tagged quarantine when the invocation started. *)
C11_SuccessorNotQuarantined ==
    /\ next_candidate # None =>
           /\ next_candidate.version # target_version
           /\ next_candidate.tag # QUARANTINE_TAG
    /\ \A i \in MadeLatest :
           /\ registry[i].version # target_version
           /\ reg0[i].tag # QUARANTINE_TAG

(* The part of C11 that the code keeps: the selected record is neither of
   the target's version nor in quarantine, and latest is never set on a
   record of the target's version. *)
SelectionExcludesTargetAndQuarantine ==
    /\ next_candidate # None =>
           /\ next_candidate.version # target_version
           /\ next_candidate.tag # QUARANTINE_TAG
    /\ \A i \in MadeLatest : registry[i].version # target_version

(* C12: the version chosen as successor, the one that receives latest in
   step 2, parses as SemVer. *)
C12_SuccessorParseable ==
    /\ next_candidate # None => SemVer_parse(next_candidate.version) # None
    /\ \A k \in DOMAIN patched :
           patched[k].tag = <<LATEST_TAG>> => SemVer_parse(patched[k].version) # None

(* The target's version string is carried by a record whose release status,
   upper-cased, is RELEASED or TRUSTED_RELEASE. *)
TargetEligible ==
    \E i \in DOMAIN reg0 :
        /\ reg0[i].version = target_version
        /\ StatusUpper(reg0[i].release_status) \in {TRUSTED, RELEASED}

(* C13: a target whose version string does not parse, carried by an
   eligible record, is found: rollback does not end with target-not-found,
   and a live run quarantines it with its backup. *)
C13_UnparseableTarget ==
    (/\ pc = "done" /\ outcome \in CleanOutcomes
     /\ SemVer_parse(target_version) = None
     /\ TargetEligible)
        => /\ outcome # "not_found"
           /\ ~dry_run =>
                  /\ patched # <<>>
                  /\ patched[1].version = target_version
                  /\ patched[1].tag = <<QUARANTINE_TAG>>
                  /\ \A i \in DOMAIN registry :
                         registry[i].version = target_version =>
                             /\ registry[i].tag = QUARANTINE_TAG
                             /\ BACKUP_BEFORE_QUARANTINE \in DOMAIN registry[i].properties
                             /\ registry[i].properties[BACKUP_BEFORE_QUARANTINE]
                                    = <<current_tag>>

(* C13 witness: 1.2.x was rolled back live. *)
C13_Witness ==
    /\ pc = "done" /\ ~dry_run /\ outcome = "non_latest"
    /\ target_version = V12x
    /\ SemVer_parse(V12x) = None
    /\ \E i \in DOMAIN registry :
           registry[i].version = V12x /\ registry[i].tag = QUARANTINE_TAG

(* The target's version string is in the registry, and only on records
   whose release status is outside the set ok. *)
TargetOnlyOutside(ok) ==
    /\ \E i \in DOMAIN reg0 : reg0[i].version = target_version
    /\ \A i \in DOMAIN reg0 : reg0[i].version = target_version => ~ok[i]

(* C14 as stated: a target that the registry holds only with a release
   status other than the strings RELEASED and TRUSTED_RELEASE is reported
   as not found and not patched, and the successor is a record whose
   release status is one of these two strings. *)
C14_ExactStatus ==
    LET ok == [i \in DOMAIN reg0 |-> reg0[i].release_status \in {TRUSTED, RELEASED}]
    IN  /\ (pc = "done" /\ outcome \notin {"list_failed", "stopped", "usage"}
                /\ TargetOnlyOutside(ok))
               => (outcome = "not_found" /\ patched = <<>> /\ registry = reg0)
        /\ (pc \in {"patch1", "patch2"}) => ~TargetOnlyOutside(ok)
        /\ next_candidate # None => \E i \in RecordsOf(next_candidate) : ok[i]

(* C14, amended: the same with the release status compared after
   upper-casing, as get_prod_versions compares it. *)
C14_UpperCasedStatus ==
    LET ok == [i \in DOMAIN reg0 |->
                  StatusUpper(reg0[i].release_status) \in {TRUSTED, RELEASED}]
    IN  /\ (pc = "done" /\ outcome \notin {"list_failed", "stopped", "usage"}
                /\ TargetOnlyOutside(ok))
               => (outcome = "not_found" /\ patched = <<>> /\ registry = reg0)
        /\ (pc \in {"patch1", "patch2"}) => ~TargetOnlyOutside(ok)
        /\ next_candidate # None => \E i \in RecordsOf(next_candidate) : ok[i]

(* C14 witness: the target is in the registry as a DRAFT record only, next
   to an eligible record of another version. *)
C14_Witness ==
    /\ pc = "done" /\ outcome = "not_found"
    /\ \E i \in DOMAIN reg0 :
           reg0[i].version = target_version /\ reg0[i].release_status = "DRAFT"
    /\ prod_versions # <<>>

(* Every record of the target's version is in quarantine. *)
TargetQuarantined ==
    \A i \in DOMAIN registry :
        registry[i].version = target_version => registry[i].tag = QUARANTINE_TAG

(* C15: an invocation sends at most two PATCH requests, one at a time; the
   first is the quarantine of the target; the second, if any, is the
   latest-reassignment of the successor and is sent only once the
   quarantine has gone through. *)
C15_AtMostTwoPatches ==
    /\ Len(patched) <= 2
    /\ pc \in {"idle", "list", "patch1"} => patched = <<>>
    /\ pc = "patch2" => Len(patched) = (IF dry_run THEN 0 ELSE 1)
    /\ Len(patched) >= 1 =>
           /\ patched[1].version = target_version
           /\ patched[1].tag = <<QUARANTINE_TAG>>
    /\ Len(patched) = 2 =>
           /\ next_candidate # None
           /\ patched[2].version = next_candidate.version
           /\ patched[2].tag = <<LATEST_TAG>>
           /\ TargetQuarantined
    /\ (pc = "patch2" /\ ~dry_run) => TargetQuarantined

(* C15 witness: both requests were sent. *)
C15_Witness ==
    /\ pc = "done" /\ outcome = "reassigned"
    /\ Len(patched) = 2
    /\ patched[1].tag = <<QUARANTINE_TAG>>
    /\ patched[2].tag = <<LATEST_TAG>>

(* C16: after a failed call rollback has stopped: the failed request was
   sent once and is the last one sent; a failed list or quarantine leaves no
   reassignment behind; a failed reassignment leaves the target in
   quarantine with its backup; the registry holds what the completed calls
   produced, with or without the effect of the failed one. *)
C16_StopsAtFirstFailure ==
    /\ (pc = "done" /\ outcome = "list_failed") =>
           (patched = <<>> /\ registry = reg0)
    /\ (pc = "done" /\ outcome = "patch_failed" /\ next_candidate = None) =>
           /\ Len(patched) = 1
           /\ patched[1].tag = <<QUARANTINE_TAG>>
           /\ registry \in {reg0, ApplyRequests(reg0, patched)}
    /\ (pc = "done" /\ outcome = "patch_failed" /\ next_candidate # None) =>
           /\ Len(patched) = 2
           /\ patched[1].tag = <<QUARANTINE_TAG>>
           /\ patched[2].tag = <<LATEST_TAG>>
           /\ registry \in {ApplyRequests(reg0, <<patched[1]>>),
                            ApplyRequests(reg0, patched)}
           /\ \A i \in DOMAIN registry :
                  registry[i].version = target_version =>
                      /\ registry[i].tag = QUARANTINE_TAG
                      /\ registry[i].properties[BACKUP_BEFORE_QUARANTINE] = <<current_tag>>

(* C16 witness: the reassignment failed without effect and the target stays
   in quarantine. *)
C16_Witness ==
    /\ pc = "done" /\ outcome = "patch_failed"
    /\ next_candidate # None
    /\ registry = ApplyRequests(reg0, <<patched[1]>>)
    /\ registry # ApplyRequests(reg0, patched)
    /\ TargetQuarantined

(* C17: main returns 0 exactly when rollback_in_prod returned (target
   quarantined, with or without a successor), and a non-zero status when the
   target was not found, a list or PATCH call raised, or the arguments were
   rejected. *)
C17_ExitCode ==
    (pc = "done" /\ outcome # "stopped") =>
        /\ exit_code \in {0, 1, 2}
        /\ exit_code = 0 <=> outcome \in {"non_latest", "no_successor", "reassigned"}
        /\ outcome \in {"not_found", "list_failed", "patch_failed", "usage",
                        "non_latest", "no_successor", "reassigned"}

(* C17 witness: the no-successor case returned 0. *)
C17_Witness ==
    /\ pc = "done" /\ outcome = "no_successor" /\ exit_code = 0 /\ ~dry_run
    /\ TargetQuarantined

(* C18: a live rollback whose target has the tag quarantine in the
   snapshot ends without error after exactly one PATCH, which sets the tag
   quarantine and original_tag_before_quarantine = ["quarantine"]; step 2
   does not run and every record keeps the tag it had. *)
C18_RequarantineNoOp ==
    (/\ pc = "done" /\ ~dry_run /\ outcome \in CleanOutcomes
     /\ outcome # "not_found"
     /\ current_tag = QUARANTINE_TAG)
        => /\ outcome = "non_latest"
           /\ exit_code = 0
           /\ patched = <<PatchRequest(target_version, <<QUARANTINE_TAG>>,
                             <<[k \in {BACKUP_BEFORE_QUARANTINE} |-> <<QUARANTINE_TAG>>]>>)>>
           /\ next_candidate = None
           /\ \A i \in DOMAIN registry : registry[i].tag = reg0[i].tag

(* The part of C18 that the code keeps: one PATCH, no step 2, and no tag
   changed on a record of another version string. *)
RequarantineOtherVersionsKeepTags ==
    (/\ pc = "done" /\ ~dry_run /\ outcome \in CleanOutcomes
     /\ outcome # "not_found"
     /\ current_tag = QUARANTINE_TAG)
        => /\ outcome = "non_latest"
           /\ exit_code = 0
           /\ patched = <<PatchRequest(target_version, <<QUARANTINE_TAG>>,
                             <<[k \in {BACKUP_BEFORE_QUARANTINE} |-> <<QUARANTINE_TAG>>]>>)>>
           /\ next_candidate = None
           /\ \A i \in DOMAIN registry :
                  registry[i].version # target_version => registry[i] = reg0[i]

(* The target and the successor of the finished invocation, as the lookup
   and the selection compute them from prod_versions. *)
LookedUpTarget == by_version_get(prod_versions, target_version)

(* C19: an invocation lists the registry once, before its first PATCH, and
   never again; the snapshot is the eligible part of the registry as it was
   when the invocation started, and current_tag, had_latest and the
   successor are all computed from it. *)
C19_SingleRead ==
    /\ reads <= 1
    /\ pc \in {"patch1", "patch2"} => reads = 1
    /\ patched # <<>> => reads = 1
    /\ (pc = "done" /\ outcome \in CleanOutcomes) => reads = 1
    /\ (reads = 1 /\ outcome # "list_failed") => prod_versions = get_prod_versions(reg0)
    /\ (pc \in {"patch1", "patch2"} \/ patched # <<>>) =>
           /\ LookedUpTarget # None
           /\ current_tag = LookedUpTarget.tag
           /\ had_latest = (LookedUpTarget.tag = LATEST_TAG)
    /\ next_candidate # None =>
           next_candidate = pick_next_latest(prod_versions, target_version)

(* C19 witness: both patches were sent after the single read, and the
   registry no longer is what the snapshot was taken from. *)
C19_Witness ==
    /\ pc = "done" /\ outcome = "reassigned" /\ ~dry_run
    /\ reads = 1
    /\ Len(patched) = 2
    /\ get_prod_versions(registry) # prod_versions

(* The backup properties. *)
BackupKeys == {BACKUP_BEFORE_QUARANTINE, BACKUP_BEFORE_LATEST}

(* C20: whenever a step gives a backup property of a record a new value,
   that value is the one-element list holding the tag the record had
   immediately before the step (no tag reading as the empty string). *)
C20_BackupHoldsPreviousTag ==
    [][\A i \in DOMAIN registry : \A key \in BackupKeys :
           (/\ key \in DOMAIN registry'[i].properties
            /\ \/ key \notin DOMAIN registry[i].properties
               \/ registry[i].properties[key] # registry'[i].properties[key])
               => registry'[i].properties[key] = <<NormTag(registry[i].tag)>>]_vars

(* ------------------------- properties of the SemVer helpers ----------- *)

(* The parsed arguments of the compare call. *)
ParsedA == SemVer_parse(called.a)
ParsedB == SemVer_parse(called.b)

(* The numeric triple of a parsed version. *)
Triple(v) == <<v.major, v.minor, v.patch>>

(* -1, 0 or 1 as x is below, at or above y. *)
Sign(x, y) == IF x < y THEN -1 ELSE IF x = y THEN 0 ELSE 1

(* C21: compare_semver is a total preorder: compare(a, a) = 0; compare(a, b)
   is -1 exactly when compare(b, a) is 1; and compare(a, b) <= 0 with
   compare(b, c) <= 0 gives compare(a, c) <= 0. *)
C21_TotalPreorder ==
    called.fn = "compare" =>
        /\ returned.aa = 0
        /\ returned.ab \in {-1, 0, 1}
        /\ returned.ab = -1 <=> returned.ba = 1
        /\ returned.ab = 1 <=> returned.ba = -1
        /\ (returned.ab <= 0 /\ returned.bc <= 0) => returned.ac <= 0

(* C21 witness: 1.0.0-alpha.1 < 1.0.0-alpha.beta < 1.0.0. *)
C21_Witness ==
    /\ called.fn = "compare"
    /\ called.a = P100alpha1 /\ called.b = P100alphabeta /\ called.c = P100
    /\ returned.ab = -1 /\ returned.bc = -1 /\ returned.ac = -1 /\ returned.ba = 1

(* C22: when the numeric triples differ, the first of major, minor, patch
   that differs decides, as integers and whatever the prereleases; when
   they are equal, a version without prerelease is above one with. *)
C22_NumericThenRelease ==
    called.fn = "compare" =>
        LET ta == Triple(ParsedA)
            tb == Triple(ParsedB)
            diffs == {k \in 1..3 : ta[k] # tb[k]}
            first == CHOOSE k \in diffs : \A m \in diffs : k <= m
        IN  /\ diffs # {} => returned.ab = Sign(ta[first], tb[first])
            /\ (diffs = {} /\ ParsedA.prerelease = <<>> /\ ParsedB.prerelease # <<>>)
                   => (returned.ab = 1 /\ returned.ba = -1)

(* C22 witness: 1.0.1-rc.1 is above 1.0.0, and 1.0.0 below 1.10.0. *)
C22_Witness ==
    /\ called.fn = "compare"
    /\ called.a = P101rc1 /\ called.b = P100 /\ called.c = P1100
    /\ returned.ab = 1 /\ returned.bc = -1

(* C23: with equal triples and two non-empty prereleases the first position
   where the tokens differ decides: integers for two numeric tokens, numeric
   below non-numeric, ASCII order for two non-numeric tokens; without such a
   position the shorter sequence is below. *)
C23_PrereleaseTokens ==
    (/\ called.fn = "compare"
     /\ Triple(ParsedA) = Triple(ParsedB)
     /\ ParsedA.prerelease # <<>> /\ ParsedB.prerelease # <<>>)
        => LET ap == ParsedA.prerelease
               bp == ParsedB.prerelease
               diffs == {k \in 1..Min(Len(ap), Len(bp)) : ap[k] # bp[k]}
               first == CHOOSE k \in diffs : \A m \in diffs : k <= m
           IN  /\ diffs = {} => returned.ab = Sign(Len(ap), Len(bp))
               /\ diffs # {} =>
                      returned.ab =
                          (IF IsDigitStr(ap[first]) /\ IsDigitStr(bp[first])
                           THEN Sign(IntOf(ap[first]), IntOf(bp[first]))
                           ELSE IF IsDigitStr(ap[first]) THEN -1
                           ELSE IF IsDigitStr(bp[first]) THEN 1
                           ELSE IF StrLess(ap[first], bp[first]) THEN -1 ELSE 1)
               /\ (called.a = P100beta2 /\ called.b = P100beta11) => returned.ab = -1
               /\ (called.a = P100alpha /\ called.b = P100alpha1) => returned.ab = -1
               /\ (called.a = P100alpha1 /\ called.b = P100alphabeta) => returned.ab = -1
               /\ (called.a = P100Beta /\ called.b = P100alpha) => returned.ab = -1

(* C23 witness: beta.2 < beta.11, and alpha.1 < beta.2. *)
C23_Witness ==
    /\ called.fn = "compare"
    /\ called.a = P100beta2 /\ called.b = P100beta11 /\ called.c = P100alpha1
    /\ returned.ab = -1 /\ returned.ac = 1

(* C24: compare(a, b) = 0 exactly when a and b have the same major, minor,
   patch and prerelease tokens; two such versions compare alike with any
   third, whatever their original strings. *)
C24_EqualIffSameComponents ==
    called.fn = "compare" =>
        LET same == /\ Triple(ParsedA) = Triple(ParsedB)
                    /\ ParsedA.prerelease = ParsedB.prerelease
        IN  /\ returned.ab = 0 <=> same
            /\ same => returned.ac = returned.bc

(* C24 witness: v1.0.0 and 1.0.0+build.5 compare equal. *)
C24_Witness ==
    /\ called.fn = "compare"
    /\ called.a = Pv100 /\ called.b = P100build /\ called.c = P100alpha
    /\ returned.ab = 0 /\ returned.ac = 1 /\ returned.bc = 1

(* How often s occurs in seq. *)
Count(seq, s) == Cardinality({i \in DOMAIN seq : seq[i] = s})

(* C25: the result of sort_versions_by_semver_desc holds each parseable
   string of its input as often as the input does and no other string, and
   no element of it is below a later one under compare_semver. *)
C25_SortDescending ==
    called.fn = "sort" =>
        /\ \A s \in SortPool :
               Count(returned, s) =
                   (IF SemVer_parse(s) # None THEN Count(called.version_strings, s) ELSE 0)
        /\ \A i \in DOMAIN returned : returned[i] \in SortPool
        /\ \A i, j \in DOMAIN returned :
               i < j => compare_semver(SemVer_parse(returned[i]),
                                       SemVer_parse(returned[j])) >= 0
        /\ called.version_strings = <<V12x, P130, PNotAVersion>> => returned = <<P130>>

(* C25 witness: two prereleases of 1.0.0 given in ascending order, with an
   unparseable string between them. *)
C25_Witness ==
    /\ called.fn = "sort"
    /\ called.version_strings = <<P100alpha, V12x, P100beta11>>
    /\ returned = <<P100beta11, P100alpha>>

(* C26 as stated: a string with a leading zero, a missing component, an
   empty prerelease identifier, or any character before or after the pattern
   does not parse. *)
C26_InvalidRejected ==
    (called.fn = "parse" /\ called.defect # "none") => returned = None

(* C26, amended: such a string does not parse, except that white space
   before and after the pattern is accepted. *)
C26_InvalidRejectedButWhitespace ==
    called.fn = "parse" =>
        /\ called.defect \notin {"none", "outer_whitespace"} => returned = None
        /\ called.defect \in {"none", "outer_whitespace"} => returned # None

(* C26 witness: a numeric prerelease identifier with a leading zero. *)
C26_Witness ==
    /\ called.fn = "parse"
    /\ called.defect = "leading_zero"
    /\ called.version = <<"1", ".", "2", ".", "3", "-", "0", "1">>
    /\ returned = None

(* ------------------------- properties of whole rollbacks -------------- *)

(* The positions of the records tagged latest. *)
LatestHolders(versions) == {i \in DOMAIN versions : versions[i].tag = LATEST_TAG}

(* A live invocation in which no call raised has returned. *)
LiveRollbackDone ==
    pc = "done" /\ ~dry_run /\ outcome \in CleanOutcomes \ {"not_found"}

(* C27: when at most one record was tagged latest before a live rollback
   that succeeds, at most one is afterwards, and exactly one when latest
   was reassigned to a successor. *)
C27_AtMostOneLatest ==
    (LiveRollbackDone /\ Cardinality(LatestHolders(reg0)) <= 1) =>
        /\ Cardinality(LatestHolders(registry)) <= 1
        /\ outcome = "reassigned" => Cardinality(LatestHolders(registry)) = 1

(* The version strings of the records tagged latest. *)
LatestVersions(versions) == {versions[i].version : i \in LatestHolders(versions)}

(* Lemma for C27, by version string: when the records tagged latest shared
   at most one version string before a live rollback that succeeds, they do
   afterwards, and after a reassignment it is the successor's. *)
AtMostOneLatestVersion ==
    (LiveRollbackDone /\ Cardinality(LatestVersions(reg0)) <= 1) =>
        /\ Cardinality(LatestVersions(registry)) <= 1
        /\ outcome = "reassigned" => LatestVersions(registry) = {next_candidate.version}

(* C28: once a record's tag is quarantine, no step of any rollback gives it
   another tag. *)
C28_QuarantineAbsorbing ==
    [][\A i \in DOMAIN registry :
          registry[i].tag = QUARANTINE_TAG => registry'[i].tag = QUARANTINE_TAG]_vars

(* Lemma for C28, by version string: the version string a rollback makes
   latest is not the target's, and the snapshot holds a record of it that is
   not in quarantine. *)
SuccessorHasUnquarantinedRecord ==
    (pc = "done" /\ outcome = "reassigned") =>
        /\ next_candidate.version # target_version
        /\ \E i \in DOMAIN prod_versions :
               /\ prod_versions[i].version = next_candidate.version
               /\ prod_versions[i].tag # QUARANTINE_TAG

(* The positions at which the registry differs from the one the invocation
   started on. *)
ChangedRecords == {i \in DOMAIN registry : registry[i] # reg0[i]}

(* The keys of record i whose values differ from the start of the
   invocation, or that were absent then. *)
WrittenKeys(i) ==
    {k \in DOMAIN registry[i].properties :
        k \notin DOMAIN reg0[i].properties
        \/ registry[i].properties[k] # reg0[i].properties[k]}

(* C29: a live rollback changes at most two records, the target and the
   chosen successor, and on them writes no property key but the backup key
   of the phase. *)
C29_AtMostTwoRecords ==
    (~dry_run /\ pc \in {"patch2", "done"} /\ outcome # "usage") =>
        /\ Cardinality(ChangedRecords) <= 2
        /\ \A i \in ChangedRecords :
               /\ DOMAIN reg0[i].properties \subseteq DOMAIN registry[i].properties
               /\ \/ /\ registry[i].version = target_version
                     /\ WrittenKeys(i) \subseteq {BACKUP_BEFORE_QUARANTINE}
                  \/ /\ next_candidate # None
                     /\ registry[i].version = next_candidate.version
                     /\ WrittenKeys(i) \subseteq {BACKUP_BEFORE_LATEST}

(* Lemma for C29, by version string: a live rollback changes records of at
   most two version strings, the target's and the successor's, and on them
   writes no property key but the backup key of the phase. *)
AtMostTwoVersionsChanged ==
    (~dry_run /\ pc \in {"patch2", "done"} /\ outcome # "usage") =>
        /\ Cardinality({registry[i].version : i \in ChangedRecords}) <= 2
        /\ \A i \in ChangedRecords :
               /\ registry[i].version = reg0[i].version
               /\ registry[i].release_status = reg0[i].release_status
               /\ DOMAIN reg0[i].properties \subseteq DOMAIN registry[i].properties
               /\ \/ /\ registry[i].version = target_version
                     /\ WrittenKeys(i) \subseteq {BACKUP_BEFORE_QUARANTINE}
                  \/ /\ next_candidate # None
                     /\ registry[i].version = next_candidate.version
                     /\ WrittenKeys(i) \subseteq {BACKUP_BEFORE_LATEST}

(* The positions of the snapshot that carry the target's version string. *)
TargetHits == {i \in DOMAIN prod_versions : prod_versions[i].version = target_version}

(* The last of them. *)
LastTargetHit == CHOOSE i \in TargetHits : \A j \in TargetHits : j <= i

(* C30: when the snapshot holds several records of the target's version
   string, current_tag, had_latest and the value backed up are those of the
   last of them, and Phase 2 runs exactly when that record's tag is latest. *)
C30_LastDuplicateDecides ==
    (/\ Cardinality(TargetHits) >= 2
     /\ \/ pc \in {"patch1", "patch2"}
        \/ patched # <<>>
        \/ pc = "done" /\ outcome \in CleanOutcomes \ {"not_found"})
        => LET last == prod_versions[LastTargetHit]
           IN  /\ current_tag = last.tag
               /\ had_latest = (last.tag = LATEST_TAG)
               /\ patched # <<>> =>
                      patched[1].properties[1][BACKUP_BEFORE_QUARANTINE] = <<last.tag>>
               /\ (pc = "patch2" \/ next_candidate # None \/ Len(patched) = 2)
                      => last.tag = LATEST_TAG
               /\ (pc = "done" /\ outcome \in CleanOutcomes) =>
                      (outcome \in {"no_successor", "reassigned"} <=> last.tag = LATEST_TAG)

(* C30 witness: the first record of the target's version is tagged latest,
   the last is not; the live rollback ended after Phase 1 and no record is
   tagged latest any more. *)
C30_Witness ==
    /\ pc = "done" /\ outcome = "non_latest" /\ ~dry_run
    /\ Cardinality(TargetHits) >= 2
    /\ \E i \in TargetHits : i < LastTargetHit /\ prod_versions[i].tag = LATEST_TAG
    /\ prod_versions[LastTargetHit].tag # LATEST_TAG
    /\ patched[1].properties[1][BACKUP_BEFORE_QUARANTINE] = <<prod_versions[LastTargetHit].tag>>

=============================================================================
